---- MODULE Spec2Model ----
(***************************************************************************)
(* The post lifecycle and engagement subsystem of the social-feed backend: *)
(* the post controller (createPost, getPosts, likePost, addComment,        *)
(* updatePost, deletePostImage, deletePost), the Post schema with its      *)
(* pre-save hook, and the route-level validators.                          *)
(*                                                                         *)
(* Every handler is an async function: it runs atomically between two      *)
(* awaits, and other requests run at each await.  A request therefore      *)
(* occupies a slot and advances one await at a time: the step that ends in *)
(* `await Post.findById` also carries the synchronous code that follows    *)
(* the read, and so on up to `await post.save()`.                          *)
(*                                                                         *)
(* A document obtained from findById is a local copy.  post.save() sends   *)
(* the modified paths only: a plain assignment is written as a $set of     *)
(* that path, an array push as an atomic $push, and a whole-array          *)
(* assignment or splice as a $set of the array guarded by the document     *)
(* version (__v), so that it fails when another request changed an array   *)
(* of the document in between.  save() on a document that was removed      *)
(* in between fails as well; it never inserts.                             *)
(***************************************************************************)
EXTENDS Integers, Sequences, FiniteSets, TLC

\* ---------------------------------------------------------------- bounds
MaxPosts == 1
MaxImages == 3
MaxRequests == 3
MaxSlots == 2
MaxFiles == 2

Users == {"u1", "u2"}
Slots == 1..MaxSlots
PostIds == 1..MaxPosts
ImageIds == 1..MaxImages

\* --------------------------------------------------------------- strings
\* A string is a sequence of characters; Undefined stands for JavaScript's
\* undefined (no string over Chars equals it).
Chars == {" ", "a"}
Undefined == <<"undefined">>
ContentInputs == {<<>>, <<" ">>, <<"a">>}
UpdateInputs == {Undefined, <<" ">>, <<"a">>}
TextInputs == {<<" ">>, <<"a">>}

RECURSIVE TrimLeft(_)
TrimLeft(s) ==
  IF s # <<>> /\ Head(s) = " " THEN TrimLeft(Tail(s)) ELSE s

RECURSIVE TrimRight(_)
TrimRight(s) ==
  IF s # <<>> /\ s[Len(s)] = " " THEN TrimRight(SubSeq(s, 1, Len(s) - 1)) ELSE s

\* String.prototype.trim, as applied by the validators' .trim() sanitizer.
Trim(s) == TrimRight(TrimLeft(s))

\* (mutant) the schema declares content without `trim: true`.
SchemaTrimIdentity(c) == c

\* The schema's `trim: true` setter on content: applied to every string
\* assigned to the path, not to undefined.
SchemaTrim(c) == IF c = Undefined THEN Undefined ELSE Trim(c)

\* JavaScript's !content for a string or undefined.
IsFalsy(c) == c = Undefined \/ c = <<>>

\* ------------------------------------------------------------- documents
NoLikes == [count |-> 0, users |-> <<>>]

\* (mutant) likes.count defaults to 1.
NewPostLiked(author, content, images, now) ==
  [author |-> author, content |-> SchemaTrim(content), images |-> images,
   likes |-> [count |-> 1, users |-> <<>>], comments |-> <<>>,
   isEdited |-> FALSE, editedAt |-> 0, createdAt |-> now, v |-> 0]

\* The document Post.create builds: the schema defaults for likes, comments,
\* isEdited and editedAt (0 stands for null), the createdAt timestamp,
\* version 0.
NewPost(author, content, images, now) ==
  [author |-> author, content |-> SchemaTrim(content), images |-> images,
   likes |-> NoLikes, comments |-> <<>>, isEdited |-> FALSE, editedAt |-> 0,
   createdAt |-> now, v |-> 0]

NoDoc == [author |-> "none", content |-> Undefined, images |-> <<>>,
          likes |-> NoLikes, comments |-> <<>>, isEdited |-> FALSE,
          editedAt |-> 0, createdAt |-> 0, v |-> 0]

\* The pre('save') hook: TRUE when it does not throw.
PreSaveOK(doc) == ~(IsFalsy(doc.content) /\ Len(doc.images) = 0)

\* The paths a save writes.  A set* flag writes the local value of the path;
\* a push* sequence is appended to the stored array.
NoDelta ==
  [setContent |-> FALSE, setImages |-> FALSE, pushImages |-> <<>>,
   setUsers |-> FALSE, pushUsers |-> <<>>, setCount |-> FALSE,
   pushComments |-> <<>>, setIsEdited |-> FALSE, setEditedAt |-> FALSE]

\* (mutant) no update carries the version condition.
NeedsVersionNever(d) == FALSE

\* A $set of a whole array is guarded by the version read.
NeedsVersion(d) == d.setImages \/ d.setUsers

\* Every array operation increments the version.
BumpsVersion(d) ==
  \/ d.setImages \/ d.setUsers
  \/ d.pushImages # <<>> \/ d.pushUsers # <<>> \/ d.pushComments # <<>>

\* (mutant) save writes the whole local document over the stored one.
ApplyDeltaWholeDocument(post, doc, d) == [doc EXCEPT !.v = post.v + 1]

\* (mutant) pushed comments are written as a $set of the local array.
ApplyDeltaSetComments(post, doc, d) ==
  [author |-> post.author,
   content |-> IF d.setContent THEN doc.content ELSE post.content,
   images |-> IF d.setImages THEN doc.images ELSE post.images \o d.pushImages,
   likes |-> [count |-> IF d.setCount THEN doc.likes.count ELSE post.likes.count,
              users |-> IF d.setUsers THEN doc.likes.users
                        ELSE post.likes.users \o d.pushUsers],
   comments |-> IF d.pushComments # <<>> THEN doc.comments ELSE post.comments,
   isEdited |-> IF d.setIsEdited THEN doc.isEdited ELSE post.isEdited,
   editedAt |-> IF d.setEditedAt THEN doc.editedAt ELSE post.editedAt,
   createdAt |-> post.createdAt,
   v |-> IF BumpsVersion(d) THEN post.v + 1 ELSE post.v]

\* (mutant) save writes content, isEdited and editedAt of the local
\* document whether modified or not.
ApplyDeltaAllScalars(post, doc, d) ==
  [author |-> post.author,
   content |-> doc.content,
   images |-> IF d.setImages THEN doc.images ELSE post.images \o d.pushImages,
   likes |-> [count |-> IF d.setCount THEN doc.likes.count ELSE post.likes.count,
              users |-> IF d.setUsers THEN doc.likes.users
                        ELSE post.likes.users \o d.pushUsers],
   comments |-> post.comments \o d.pushComments,
   isEdited |-> doc.isEdited,
   editedAt |-> doc.editedAt,
   createdAt |-> post.createdAt,
   v |-> IF BumpsVersion(d) THEN post.v + 1 ELSE post.v]

\* The stored document after the update that save sends.
ApplyDelta(post, doc, d) ==
  [author |-> post.author,
   content |-> IF d.setContent THEN doc.content ELSE post.content,
   images |-> IF d.setImages THEN doc.images ELSE post.images \o d.pushImages,
   likes |-> [count |-> IF d.setCount THEN doc.likes.count ELSE post.likes.count,
              users |-> IF d.setUsers THEN doc.likes.users
                        ELSE post.likes.users \o d.pushUsers],
   comments |-> post.comments \o d.pushComments,
   isEdited |-> IF d.setIsEdited THEN doc.isEdited ELSE post.isEdited,
   editedAt |-> IF d.setEditedAt THEN doc.editedAt ELSE post.editedAt,
   createdAt |-> post.createdAt,
   v |-> IF BumpsVersion(d) THEN post.v + 1 ELSE post.v]

\* -------------------------------------------------------------- sequences
Range(s) == {s[i] : i \in DOMAIN s}

RECURSIVE SelectNot(_, _)
\* Array.prototype.filter((x) => x !== e)
SelectNot(s, e) ==
  IF s = <<>> THEN <<>>
  ELSE IF Head(s) = e THEN SelectNot(Tail(s), e)
       ELSE <<Head(s)>> \o SelectNot(Tail(s), e)

\* Array.prototype.includes
Includes(s, e) == \E i \in DOMAIN s : s[i] = e

Max(a, b) == IF a >= b THEN a ELSE b

\* ------------------------------------------------------------------ state
VARIABLES
  posts,      \* the Post collection: id -> stored document
  nextId,     \* the next post id Post.create assigns
  assets,     \* the asset store: publicIds of the images it holds
  nextImg,    \* the next publicId an upload is given
  clock,      \* the time new Date() returns, advanced at each use
  req,        \* the requests in progress and the last response of each slot
  started,    \* requests started so far
  overlap,    \* history: two toggles of one user on one post have overlapped
  feed        \* the getPosts request in progress and its response

vars == <<posts, nextId, assets, nextImg, clock, req, started, overlap, feed>>

\* A slot: the request it handles (its inputs, the document as read in doc0,
\* the local document in doc, the modified paths in delta, the publicIds
\* passed to deleteImage so far in attempted) and, once pc is "done", the
\* response (status, liked); kept tells that the request is still on record
\* in full.
Idle ==
  [op |-> "none", pc |-> "idle", user |-> "none", pid |-> 0, seq |-> 0,
   content |-> Undefined, del |-> <<>>, todo |-> <<>>, files |-> <<>>,
   target |-> 0, text |-> <<>>, doc0 |-> NoDoc, doc |-> NoDoc,
   delta |-> NoDelta, status |-> 0, liked |-> FALSE, attempted |-> <<>>,
   kept |-> FALSE]

\* A request as it enters its handler.
Request(op, user, pid) ==
  [Idle EXCEPT !.op = op, !.pc = "start", !.user = user, !.pid = pid,
               !.seq = started + 1]

\* The handler has answered: its locals are gone.  The slot keeps the request
\* (its inputs, the document it read, the publicIds it passed to deleteImage)
\* and the response (status, liked).
Respond(q, status) ==
  [q EXCEPT !.pc = "done", !.status = status, !.doc = NoDoc,
            !.delta = NoDelta, !.todo = <<>>, !.kept = TRUE]

\* What is remembered of a response once a later request has arrived: who
\* asked for what, the response, and the likes the request read.
Forget(q) ==
  IF q.pc # "done" THEN q
  ELSE [Idle EXCEPT !.pc = "done", !.op = q.op, !.user = q.user,
                    !.pid = q.pid, !.seq = q.seq, !.status = q.status,
                    !.liked = q.liked,
                    !.doc0 = [NoDoc EXCEPT !.likes = q.doc0.likes]]

\* Request q arrives in slot r.
Arrived(r, q) == [s \in Slots |-> IF s = r THEN q ELSE Forget(req[s])]

\* Slot s holds a response and no request has arrived since.
Fresh(s) == req[s].pc = "done" /\ req[s].kept

Over(s) == req[s].pc \in {"idle", "done"}

\* A request takes the slot whose response is the oldest.
Free(r) ==
  /\ Over(r)
  /\ started < MaxRequests
  /\ \A s \in Slots : Over(s) =>
        \/ req[s].seq > req[r].seq
        \/ req[s].seq = req[r].seq /\ s >= r

Quiet == \A s \in Slots : Over(s)

\* The files multer stored for a request before its handler ran: n uploads
\* with fresh publicIds.
Uploaded(n) == [i \in 1..n |-> nextImg + i - 1]

NoFeed ==
  [pc |-> "idle", page |-> 0, limit |-> 0, totalItems |-> 0, items |-> <<>>,
   status |-> 0, totalPages |-> 0, hasMore |-> FALSE]

Init ==
  /\ posts = <<>>
  /\ nextId = 1
  /\ assets = {}
  /\ nextImg = 1
  /\ clock = 1
  /\ req = [r \in Slots |-> Idle]
  /\ started = 0
  /\ overlap = FALSE
  /\ feed = NoFeed

\* ------------------------------------------------------------- createPost
\* createPostValidation: content is optional; a string is trimmed in place.
CreateSanitize(c) == IF c = Undefined THEN Undefined ELSE Trim(c)

CreatePost(r) ==
  /\ Free(r)
  /\ \E u \in Users, c0 \in ContentInputs \cup {Undefined}, n \in 0..MaxFiles :
       LET c == CreateSanitize(c0)
           files == Uploaded(n)
           q == [Request("create", u, nextId) EXCEPT !.content = c,
                                                       !.files = files]
       IN /\ nextImg + n <= MaxImages + 1
          /\ assets' = assets \cup Range(files)
          /\ nextImg' = nextImg + n
          /\ started' = started + 1
          /\ IF IsFalsy(c) /\ n = 0
             THEN /\ req' = Arrived(r, Respond(q, 400))
                  /\ UNCHANGED <<posts, nextId>>
             ELSE /\ nextId <= MaxPosts
                  /\ PreSaveOK(NewPost(u, c, files, clock))
                  /\ posts' = posts @@ (nextId :> NewPost(u, c, files, clock))
                  /\ nextId' = nextId + 1
                  /\ req' = Arrived(r, Respond(q, 201))
          /\ UNCHANGED <<clock, overlap, feed>>

\* ---------------------------------------------------------------- getPost
\* A public route: findById, then 404 or the post.
GetPost(r) ==
  /\ Free(r)
  /\ \E p \in PostIds :
       LET q == Request("get", "none", p) IN
       /\ started' = started + 1
       /\ req' = Arrived(r,
            IF p \notin DOMAIN posts THEN Respond(q, 404)
            ELSE Respond([q EXCEPT !.doc0 = posts[p]], 200))
  /\ UNCHANGED <<posts, nextId, assets, nextImg, clock, overlap, feed>>

\* --------------------------------------------------------------- likePost
\* (mutant) the unlike leaves the count as it is.
LikeLocalNoDecrement(doc, username) ==
  IF Includes(doc.likes.users, username)
  THEN [doc EXCEPT !.likes = [users |-> SelectNot(doc.likes.users, username),
                              count |-> doc.likes.count]]
  ELSE [doc EXCEPT !.likes = [users |-> Append(doc.likes.users, username),
                              count |-> doc.likes.count + 1]]

\* The local document after the toggle (lines 346-356).
LikeLocal(doc, username) ==
  IF Includes(doc.likes.users, username)
  THEN [doc EXCEPT !.likes = [users |-> SelectNot(doc.likes.users, username),
                              count |-> Max(0, doc.likes.count - 1)]]
  ELSE [doc EXCEPT !.likes = [users |-> Append(doc.likes.users, username),
                              count |-> doc.likes.count + 1]]

\* The paths the toggle modified: the unlike assigns the array, the like
\* pushes to it; both assign the count.
LikeDelta(doc, username) ==
  IF Includes(doc.likes.users, username)
  THEN [NoDelta EXCEPT !.setUsers = TRUE, !.setCount = TRUE]
  ELSE [NoDelta EXCEPT !.pushUsers = <<username>>, !.setCount = TRUE]

LikeRead(r) ==
  /\ Free(r)
  /\ \E u \in Users, p \in PostIds :
       LET q == Request("like", u, p) IN
       /\ started' = started + 1
       /\ IF p \notin DOMAIN posts
          THEN req' = Arrived(r, Respond(q, 404))
          ELSE req' = Arrived(r,
                 [q EXCEPT !.pc = "save", !.doc0 = posts[p],
                           !.doc = LikeLocal(posts[p], u),
                           !.delta = LikeDelta(posts[p], u),
                           !.liked = ~Includes(posts[p].likes.users, u)])
       /\ overlap' = (overlap \/ \E s \in Slots \ {r} :
                         /\ req[s].op = "like" /\ req[s].pc = "save"
                         /\ req[s].user = u /\ req[s].pid = p)
       /\ UNCHANGED <<posts, nextId, assets, nextImg, clock, feed>>

\* ------------------------------------------------------------------- save
\* await post.save() and the response that follows it.  A throw (the
\* pre-save hook, a version conflict, a removed document) reaches the
\* handler's catch, which answers 500.
SaveOK(q) ==
  /\ PreSaveOK(q.doc)
  /\ q.pid \in DOMAIN posts
  /\ NeedsVersion(q.delta) => posts[q.pid].v = q.doc.v

\* (mutant) save inserts the local document when the stored one is gone.
SaveUpsert(r) ==
  LET q == req[r] IN
  /\ q.pc = "save"
  /\ IF q.pid \notin DOMAIN posts
     THEN /\ posts' = posts @@ (q.pid :> q.doc)
          /\ req' = [req EXCEPT ![r] =
                       Respond(q, IF q.op = "comment" THEN 201 ELSE 200)]
     ELSE IF SaveOK(q)
     THEN /\ posts' = [posts EXCEPT ![q.pid] = ApplyDelta(@, q.doc, q.delta)]
          /\ req' = [req EXCEPT ![r] =
                       Respond(q, IF q.op = "comment" THEN 201 ELSE 200)]
     ELSE /\ req' = [req EXCEPT ![r] = Respond(q, 500)]
          /\ UNCHANGED posts
  /\ UNCHANGED <<nextId, assets, nextImg, clock, started>>
  /\ UNCHANGED <<overlap, feed>>

Save(r) ==
  LET q == req[r] IN
  /\ q.pc = "save"
  /\ IF SaveOK(q)
     THEN /\ posts' = [posts EXCEPT ![q.pid] = ApplyDelta(@, q.doc, q.delta)]
          /\ req' = [req EXCEPT ![r] =
                       Respond(q, IF q.op = "comment" THEN 201 ELSE 200)]
     ELSE /\ req' = [req EXCEPT ![r] = Respond(q, 500)]
          /\ UNCHANGED posts
  /\ UNCHANGED <<nextId, assets, nextImg, clock, started>>
  /\ UNCHANGED <<overlap, feed>>

\* ------------------------------------------------------------ deleteImage
\* The asset store adapter's delete(storageId): it removes the asset, an
\* absent asset counting as removed, or fails with a DeletionError.
DeleteOutcomes == {"removed", "DeletionError"}

DeleteImage(store, publicId, outcome) ==
  IF outcome = "removed" THEN store \ {publicId} ELSE store

\* ------------------------------------------------------------- addComment
CommentMaxLen == 500

\* (mutant) commentValidation without isLength({max: 500}).
CommentValidNoMax(text) == Trim(text) # <<>>

\* commentValidation: trim, notEmpty, isLength({max: 500}).
CommentValid(text) == Trim(text) # <<>> /\ Len(Trim(text)) <= CommentMaxLen

\* The subdocument pushed at lines 412-419; its _id is generated with it.
NewComment(q) == [id |-> q.seq, user |-> q.user, text |-> Trim(q.text)]

\* addComment up to save, the text drawn from texts.
CommentWith(r, texts) ==
  /\ Free(r)
  /\ \E u \in Users, p \in PostIds, t \in texts :
       LET q == [Request("comment", u, p) EXCEPT !.text = t] IN
       /\ started' = started + 1
       /\ req' = Arrived(r,
            IF ~CommentValid(t) THEN Respond(q, 400)
            ELSE IF p \notin DOMAIN posts THEN Respond(q, 404)
            ELSE [q EXCEPT !.pc = "save", !.doc0 = posts[p],
                    !.doc = [posts[p] EXCEPT !.comments = Append(@, NewComment(q))],
                    !.delta = [NoDelta EXCEPT !.pushComments = <<NewComment(q)>>]])
       /\ UNCHANGED <<posts, nextId, assets, nextImg, clock>>
  /\ UNCHANGED <<overlap, feed>>

CommentRead(r) == CommentWith(r, TextInputs)

\* A text of n characters c.
Repeat(c, n) == [i \in 1..n |-> c]

\* Texts around the limits of commentValidation: empty, blank, short, of
\* 500 and of 501 characters, and of 500 characters between two spaces.
LongTextInputs ==
  {<<>>, <<" ">>, <<" ", "a", " ">>,
   Repeat("a", CommentMaxLen), Repeat("a", CommentMaxLen + 1),
   <<" ">> \o Repeat("a", CommentMaxLen) \o <<" ">>}

\* addComment, the text drawn from LongTextInputs.
CommentLong(r) == CommentWith(r, LongTextInputs)

\* No post yet, or the post an earlier createPost stored.
InitComment ==
  /\ posts \in {<<>>, <<NewPost("u1", <<"a">>, <<>>, 1)>>}
  /\ nextId = Len(posts) + 1
  /\ assets = {}
  /\ nextImg = 1
  /\ clock = 2
  /\ req = [r \in Slots |-> Idle]
  /\ started = 0
  /\ overlap = FALSE
  /\ feed = NoFeed

\* ------------------------------------------------------------- updatePost
\* (mutant) the ownership check is missing.
NotOwnerNever(doc, user) == FALSE

\* post.author.toString() !== req.user?.id
NotOwner(doc, user) == doc.author # user

\* imagesToDelete as parsed at lines 465-474: a list of publicIds, which
\* the request is free to choose.
DeleteLists ==
  {<<>>} \cup {<<i>> : i \in ImageIds}
         \cup {<<p[1], p[2]>> : p \in {x \in ImageIds \X ImageIds : x[1] < x[2]}}

\* (mutant) editedAt is not assigned.
UpdateEditedNoDate(q, now) ==
  LET images == q.doc.images \o q.files
      content == IF q.content # Undefined THEN SchemaTrim(q.content)
                 ELSE q.doc.content
      setImages == q.doc.images # q.doc0.images
  IN [q EXCEPT !.pc = "save",
          !.doc = [q.doc EXCEPT !.images = images, !.content = content,
                                !.isEdited = TRUE],
          !.delta = [NoDelta EXCEPT
                       !.setImages = setImages,
                       !.pushImages = IF setImages THEN <<>> ELSE q.files,
                       !.setContent = content # q.doc0.content,
                       !.setIsEdited = ~q.doc0.isEdited]]

\* Lines 484-496 and 507-511: append the uploaded files, assign the content,
\* mark the post edited; the modified paths are those whose value changed.
\* `now` is what new Date() returns.
UpdateEdited(q, now) ==
  LET images == q.doc.images \o q.files
      content == IF q.content # Undefined THEN SchemaTrim(q.content)
                 ELSE q.doc.content
      setImages == q.doc.images # q.doc0.images
  IN [q EXCEPT !.pc = "save",
          !.doc = [q.doc EXCEPT !.images = images, !.content = content,
                                !.isEdited = TRUE, !.editedAt = now],
          !.delta = [NoDelta EXCEPT
                       !.setImages = setImages,
                       !.pushImages = IF setImages THEN <<>> ELSE q.files,
                       !.setContent = content # q.doc0.content,
                       !.setIsEdited = ~q.doc0.isEdited,
                       !.setEditedAt = TRUE]]

\* (mutant) the validation at lines 498-505 is missing.
UpdateFinishNoCheck(q, now) == UpdateEdited(q, now)

\* Lines 484-511, the synchronous code between the last deleteImage and
\* save: the validation at lines 498-505 comes after the images and the
\* content are assigned and before the post is marked edited.
UpdateFinish(q, now) ==
  LET images == q.doc.images \o q.files
      content == IF q.content # Undefined THEN SchemaTrim(q.content)
                 ELSE q.doc.content
  IN IF IsFalsy(content) /\ Len(images) = 0
     THEN Respond(q, 400)
     ELSE UpdateEdited(q, now)

\* new Date() was called when the request went on to save.
Tick(q) == IF q.pc = "save" /\ q.op = "update" THEN clock + 1 ELSE clock

\* (mutant) the filtered array is not assigned back.
RemoveImageKeep(images, publicId) == images

\* post.images.filter((img) => img.publicId !== publicId)
RemoveImage(images, publicId) == SelectNot(images, publicId)

UpdateRead(r) ==
  /\ Free(r)
  /\ \E u \in Users, p \in PostIds, c \in UpdateInputs,
        del \in DeleteLists, n \in 0..1 :
       LET files == Uploaded(n)
           q == [Request("update", u, p) EXCEPT !.content = c, !.del = del,
                                                  !.files = files]
           q1 == IF p \notin DOMAIN posts THEN Respond(q, 404)
                 ELSE IF NotOwner(posts[p], u) THEN Respond(q, 403)
                 ELSE LET q0 == [q EXCEPT !.doc0 = posts[p], !.doc = posts[p]]
                      IN IF del = <<>> THEN UpdateFinish(q0, clock)
                         ELSE [q0 EXCEPT !.pc = "del", !.todo = del]
       IN /\ nextImg + n <= MaxImages + 1
          /\ assets' = assets \cup Range(files)
          /\ nextImg' = nextImg + n
          /\ started' = started + 1
          /\ req' = Arrived(r, q1)
          /\ clock' = Tick(q1)
          /\ UNCHANGED <<posts, nextId>>
  /\ UNCHANGED <<overlap, feed>>

\* One turn of the loop at lines 478-481.
UpdateDeleteImage(r) ==
  LET q == req[r] IN
  /\ q.op = "update" /\ q.pc = "del"
  /\ \E outcome \in DeleteOutcomes :
       LET id == Head(q.todo)
           qa == [q EXCEPT !.attempted = Append(@, id)]
           qf == [qa EXCEPT !.doc.images = RemoveImage(@, id),
                            !.todo = Tail(@)]
           q1 == IF outcome # "removed" THEN Respond(qa, 500)
                 ELSE IF qf.todo = <<>> THEN UpdateFinish(qf, clock)
                 ELSE qf
       IN /\ assets' = DeleteImage(assets, id, outcome)
          /\ req' = [req EXCEPT ![r] = q1]
          /\ clock' = Tick(q1)
  /\ UNCHANGED <<posts, nextId, nextImg, started>>
  /\ UNCHANGED <<overlap, feed>>

\* -------------------------------------------------------- deletePostImage
\* findIndex((img) => img.publicId === publicId): 0 stands for -1.
FindIndex(images, publicId) ==
  IF Includes(images, publicId)
  THEN CHOOSE i \in DOMAIN images :
         /\ images[i] = publicId
         /\ \A j \in 1..(i - 1) : images[j] # publicId
  ELSE 0

\* images.splice(index, 1)
Splice(images, index) ==
  SubSeq(images, 1, index - 1) \o SubSeq(images, index + 1, Len(images))

\* (mutant) the last-image check is missing.
LastImageNever(doc) == FALSE

\* The check at line 565.
LastImage(doc) == IsFalsy(doc.content) /\ Len(doc.images) = 1

DeleteImageRead(r) ==
  /\ Free(r)
  /\ \E u \in Users, p \in PostIds, target \in ImageIds :
       LET q == [Request("deleteImage", u, p) EXCEPT !.target = target] IN
       /\ started' = started + 1
       /\ req' = Arrived(r,
            IF p \notin DOMAIN posts THEN Respond(q, 404)
            ELSE IF NotOwner(posts[p], u) THEN Respond(q, 403)
            ELSE IF FindIndex(posts[p].images, target) = 0 THEN Respond(q, 404)
            ELSE IF LastImage(posts[p]) THEN Respond(q, 400)
            ELSE [q EXCEPT !.pc = "asset", !.doc0 = posts[p], !.doc = posts[p]])
       /\ UNCHANGED <<posts, nextId, assets, nextImg, clock>>
  /\ UNCHANGED <<overlap, feed>>

\* Lines 574-577: the asset is deleted, then the entry is spliced out.
DeleteImageAsset(r) ==
  LET q == req[r] IN
  /\ q.op = "deleteImage" /\ q.pc = "asset"
  /\ \E outcome \in DeleteOutcomes :
       LET qa == [q EXCEPT !.attempted = Append(@, q.target)] IN
       /\ assets' = DeleteImage(assets, q.target, outcome)
       /\ req' = [req EXCEPT ![r] =
            IF outcome # "removed" THEN Respond(qa, 500)
            ELSE [qa EXCEPT !.pc = "save",
                    !.doc.images = Splice(@, FindIndex(q.doc.images, q.target)),
                    !.delta = [NoDelta EXCEPT !.setImages = TRUE]]]
  /\ UNCHANGED <<posts, nextId, nextImg, clock, started>>
  /\ UNCHANGED <<overlap, feed>>

\* ------------------------------------------------------------- deletePost
DeletePostRead(r) ==
  /\ Free(r)
  /\ \E u \in Users, p \in PostIds :
       LET q == Request("delete", u, p) IN
       /\ started' = started + 1
       /\ req' = Arrived(r,
            IF p \notin DOMAIN posts THEN Respond(q, 404)
            ELSE IF NotOwner(posts[p], u) THEN Respond(q, 403)
            ELSE [q EXCEPT !.doc0 = posts[p], !.doc = posts[p],
                           !.todo = posts[p].images,
                           !.pc = IF posts[p].images = <<>> THEN "remove"
                                  ELSE "del"])
       /\ UNCHANGED <<posts, nextId, assets, nextImg, clock>>
  /\ UNCHANGED <<overlap, feed>>

\* One turn of the loop at lines 655-657; a rejected deleteImage leaves the
\* loop and the handler through the catch.
DeletePostDeleteImage(r) ==
  LET q == req[r] IN
  /\ q.op = "delete" /\ q.pc = "del"
  /\ \E outcome \in DeleteOutcomes :
       LET id == Head(q.todo)
           qa == [q EXCEPT !.attempted = Append(@, id)]
       IN /\ assets' = DeleteImage(assets, id, outcome)
          /\ req' = [req EXCEPT ![r] =
               IF outcome # "removed" THEN Respond(qa, 500)
               ELSE [qa EXCEPT !.todo = Tail(@),
                               !.pc = IF Tail(q.todo) = <<>> THEN "remove"
                                      ELSE "del"]]
  /\ UNCHANGED <<posts, nextId, nextImg, clock, started>>
  /\ UNCHANGED <<overlap, feed>>

\* (mutant) the handler answers 200 without removing the document.
DeletePostRemoveKeeps(r) ==
  LET q == req[r] IN
  /\ q.op = "delete" /\ q.pc = "remove"
  /\ req' = [req EXCEPT ![r] = Respond(q, 200)]
  /\ UNCHANGED <<posts, nextId, assets, nextImg, clock, started>>
  /\ UNCHANGED <<overlap, feed>>

\* await post.deleteOne(): removing an absent document is no error.
DeletePostRemove(r) ==
  LET q == req[r] IN
  /\ q.op = "delete" /\ q.pc = "remove"
  /\ posts' = [p \in DOMAIN posts \ {q.pid} |-> posts[p]]
  /\ req' = [req EXCEPT ![r] = Respond(q, 200)]
  /\ UNCHANGED <<nextId, assets, nextImg, clock, started>>
  /\ UNCHANGED <<overlap, feed>>

\* --------------------------------------------------------------- getPosts
MaxFeedPosts == 4
MaxCreatedAt == 2

\* The query strings the model draws req.query.page and req.query.limit
\* from; Undefined is an absent parameter.
QueryInputs ==
  {Undefined, <<"a">>, <<"0">>, <<"-", "1">>, <<"1">>, <<"2">>, <<"3">>}

Digits == {"0", "1", "2", "3", "4", "5", "6", "7", "8", "9"}

DigitValue(c) ==
  CASE c = "0" -> 0 [] c = "1" -> 1 [] c = "2" -> 2 [] c = "3" -> 3
    [] c = "4" -> 4 [] c = "5" -> 5 [] c = "6" -> 6 [] c = "7" -> 7
    [] c = "8" -> 8 [] c = "9" -> 9

RECURSIVE LeadingDigits(_)
LeadingDigits(s) ==
  IF s # <<>> /\ Head(s) \in Digits THEN <<Head(s)>> \o LeadingDigits(Tail(s))
  ELSE <<>>

RECURSIVE DecimalValue(_)
DecimalValue(ds) ==
  IF ds = <<>> THEN 0
  ELSE 10 * DecimalValue(SubSeq(ds, 1, Len(ds) - 1)) + DigitValue(ds[Len(ds)])

NaN == [nan |-> TRUE, n |-> 0]

\* parseInt(string): leading white space, an optional sign, the longest run
\* of digits; NaN when there is none.
ParseInt(s) ==
  LET t == TrimLeft(s)
      signed == t # <<>> /\ Head(t) \in {"-", "+"}
      ds == LeadingDigits(IF signed THEN Tail(t) ELSE t)
  IN IF ds = <<>> THEN NaN
     ELSE [nan |-> FALSE,
           n |-> IF signed /\ Head(t) = "-" THEN 0 - DecimalValue(ds)
                 ELSE DecimalValue(ds)]

\* parseInt(x) || d: NaN and 0 are falsy.
OrDefault(v, d) == IF v.nan \/ v.n = 0 THEN d ELSE v.n

DefaultPage == 1
DefaultLimit == 10

\* (mutant) Math.floor in place of Math.ceil.
FloorDiv(a, b) == a \div b

\* Math.ceil(a / b) for integers a and b # 0.
CeilDiv(a, b) == 0 - ((0 - a) \div b)

\* The orders .sort({ createdAt: -1 }) may return the collection in: any
\* order of the ids with createdAt descending.
SortOrders ==
  {o \in [1..Cardinality(DOMAIN posts) -> DOMAIN posts] :
     /\ \A i, j \in DOMAIN o : i # j => o[i] # o[j]
     /\ \A i, j \in DOMAIN o : i < j => posts[o[i]].createdAt >= posts[o[j]].createdAt}

\* .skip(skip).limit(limit) of a sorted result; a negative limit is taken
\* as its absolute value.
Page(order, skip, limit) ==
  LET n == IF limit < 0 THEN 0 - limit ELSE limit
      last == IF skip + n < Len(order) THEN skip + n ELSE Len(order)
  IN SubSeq(order, skip + 1, last)

\* Lines 259-263: the query is parsed and the documents are counted.
GetPostsCount ==
  /\ feed.pc \in {"idle", "done"}
  /\ \E qp \in QueryInputs, ql \in QueryInputs :
       feed' = [NoFeed EXCEPT !.pc = "find",
                  !.page = OrDefault(ParseInt(qp), DefaultPage),
                  !.limit = OrDefault(ParseInt(ql), DefaultLimit),
                  !.totalItems = Cardinality(DOMAIN posts)]
  /\ UNCHANGED <<posts, nextId, assets, nextImg, clock, req, started, overlap>>

\* Lines 264-280: the page is read and the response is built.  The
\* database rejects a negative skip, which the catch answers with 500.
GetPostsFind ==
  /\ feed.pc = "find"
  /\ LET skip == (feed.page - 1) * feed.limit
         totalPages == CeilDiv(feed.totalItems, feed.limit)
     IN IF skip < 0
        THEN feed' = [feed EXCEPT !.pc = "done", !.status = 500]
        ELSE \E order \in SortOrders :
               feed' = [feed EXCEPT !.pc = "done", !.status = 200,
                          !.items = Page(order, skip, feed.limit),
                          !.totalPages = totalPages,
                          !.hasMore = feed.page < totalPages]
  /\ UNCHANGED <<posts, nextId, assets, nextImg, clock, req, started, overlap>>

\* A collection of n posts, created one after the other; two posts created
\* within one millisecond carry the same createdAt.
FeedCollections ==
  {[i \in 1..n |-> NewPost("u1", <<"a">>, <<>>, t[i])] :
     n \in 0..MaxFeedPosts,
     t \in {x \in [1..MaxFeedPosts -> 1..MaxCreatedAt] :
              \A i, j \in 1..MaxFeedPosts : i < j => x[i] <= x[j]}}

InitFeed ==
  /\ posts \in FeedCollections
  /\ nextId = Len(posts) + 1
  /\ assets = {}
  /\ nextImg = 1
  /\ clock = MaxCreatedAt + 1
  /\ req = [r \in Slots |-> Idle]
  /\ started = 0
  /\ overlap = FALSE
  /\ feed = NoFeed

\* ----------------------------------------------------------- specification
\* Requests handled concurrently: a request may arrive at any await of
\* another.
Next ==
  \E r \in Slots :
    \/ CreatePost(r)
    \/ GetPost(r)
    \/ LikeRead(r)
    \/ CommentRead(r)
    \/ UpdateRead(r)
    \/ DeleteImageRead(r)
    \/ DeletePostRead(r)
    \/ Save(r)
    \/ UpdateDeleteImage(r)
    \/ DeleteImageAsset(r)
    \/ DeletePostDeleteImage(r)
    \/ DeletePostRemove(r)

Spec == Init /\ [][Next]_vars

\* Requests handled one at a time: each runs to completion before the next
\* arrives.
NextSeq ==
  \E r \in Slots :
    \/ Quiet /\ CreatePost(r)
    \/ Quiet /\ GetPost(r)
    \/ Quiet /\ LikeRead(r)
    \/ Quiet /\ CommentRead(r)
    \/ Quiet /\ UpdateRead(r)
    \/ Quiet /\ DeleteImageRead(r)
    \/ Quiet /\ DeletePostRead(r)
    \/ Save(r)
    \/ UpdateDeleteImage(r)
    \/ DeleteImageAsset(r)
    \/ DeletePostDeleteImage(r)
    \/ DeletePostRemove(r)

SpecSeq == Init /\ [][NextSeq]_vars

\* The feed read over a collection that earlier createPost calls built.
NextFeed ==
  \/ GetPostsCount
  \/ GetPostsFind

SpecFeed == InitFeed /\ [][NextFeed]_vars

\* Comments only, with texts around the validation limits.
NextComment ==
  \E r \in Slots :
    \/ CommentLong(r)
    \/ Save(r)

SpecComment == InitComment /\ [][NextComment]_vars

\* ================================================================ claims
\* Slot r takes the step: its request arrives.
Arrives(r) == started' = started + 1 /\ req'[r].seq = started'

\* Slot r takes the step: its request arrives or goes on.
Acts(r) == Arrives(r) \/ (~Over(r) /\ req'[r] # req[r])

HasContent(post) == post.content # Undefined /\ Trim(post.content) # <<>>

RECURSIVE Without(_, _)
\* The entries of a sequence that are not in a set, in their order.
Without(seq, ids) ==
  IF seq = <<>> THEN <<>>
  ELSE IF Head(seq) \in ids THEN Without(Tail(seq), ids)
       ELSE <<Head(seq)>> \o Without(Tail(seq), ids)

\* C1: with requests handled one at a time, every stored post has content
\* that is non-empty after trimming or at least one image.
C1_ContentOrImages ==
  \A p \in DOMAIN posts : HasContent(posts[p]) \/ Len(posts[p].images) > 0

\* A successful update or image deletion left a post that has only one of
\* the two.
C1_Witness ==
  \E r \in Slots :
    /\ Fresh(r) /\ req[r].op \in {"update", "deleteImage"} /\ req[r].status = 200
    /\ req[r].pid \in DOMAIN posts
    /\ ~HasContent(posts[req[r].pid]) \/ posts[req[r].pid].images = <<>>
    /\ posts[req[r].pid] # req[r].doc0

\* C2: unless two toggles of one user have overlapped, likes.count equals
\* the number of usernames in likes.users, for every post and every
\* interleaving of the toggles' reads and saves.
C2_CountEqualsUsers ==
  ~overlap =>
    \A p \in DOMAIN posts : posts[p].likes.count = Len(posts[p].likes.users)

\* Slots r1 and r2 hold the two latest requests.
Latest(r1, r2) ==
  \A s \in Slots \ {r1, r2} : req[s].seq < req[r1].seq /\ req[s].seq < req[r2].seq

\* C3: once two toggles by distinct users who had not liked the post have
\* both answered, the post still being there, both have succeeded and both
\* usernames are in likes.users.
C3_BothLikesRegister ==
  \A r1, r2 \in Slots :
    ( /\ r1 # r2 /\ Latest(r1, r2)
      /\ req[r1].pc = "done" /\ req[r2].pc = "done"
      /\ req[r1].op = "like" /\ req[r2].op = "like"
      /\ req[r1].status # 404 /\ req[r2].status # 404
      /\ req[r1].liked /\ req[r2].liked
      /\ req[r1].user # req[r2].user
      /\ req[r1].pid = req[r2].pid
      /\ req[r1].pid \in DOMAIN posts )
    => /\ req[r1].status = 200 /\ req[r2].status = 200
       /\ Includes(posts[req[r1].pid].likes.users, req[r1].user)
       /\ Includes(posts[req[r1].pid].likes.users, req[r2].user)

\* Both toggles read the post before either saved: two users, a count of 1.
C3_Witness ==
  \E r1, r2 \in Slots :
    /\ r1 # r2
    /\ req[r1].pc = "done" /\ req[r2].pc = "done"
    /\ req[r1].op = "like" /\ req[r2].op = "like"
    /\ req[r1].status = 200 /\ req[r2].status = 200
    /\ req[r1].liked /\ req[r2].liked
    /\ req[r1].user # req[r2].user
    /\ req[r1].pid \in DOMAIN posts
    /\ req[r1].doc0.likes = req[r2].doc0.likes
    /\ Len(posts[req[r1].pid].likes.users) = 2

\* A toggle run on its own: what it stores and what it answers.
ToggleLike(post, username) ==
  [post |-> ApplyDelta(post, LikeLocal(post, username), LikeDelta(post, username)),
   liked |-> ~Includes(post.likes.users, username)]

\* Slot r2 holds the latest request, a completed toggle, and slot r1 the one
\* before it, a completed toggle of the same user on the same post.
TogglePair(r1, r2) ==
  /\ r1 # r2 /\ req[r2].seq = started /\ req[r1].seq + 1 = req[r2].seq
  /\ req[r1].pc = "done" /\ req[r2].pc = "done"
  /\ req[r1].op = "like" /\ req[r2].op = "like"
  /\ req[r1].status = 200 /\ req[r2].status = 200
  /\ req[r1].user = req[r2].user
  /\ req[r1].pid = req[r2].pid
  /\ req[r1].pid \in DOMAIN posts

\* C4: with requests handled one at a time, two consecutive toggles of one
\* user restore the count and the set of users; the first answers liked =
\* not a member before, the second the opposite.  Stated of every stored
\* post and every user, and of every pair of toggles the requests made.
C4_ToggleTwiceRestores ==
  /\ \A p \in DOMAIN posts, u \in Users :
       LET first == ToggleLike(posts[p], u)
           second == ToggleLike(first.post, u)
       IN /\ second.post.likes.count = posts[p].likes.count
          /\ Range(second.post.likes.users) = Range(posts[p].likes.users)
          /\ first.liked = ~Includes(posts[p].likes.users, u)
          /\ second.liked = Includes(posts[p].likes.users, u)
  /\ \A r1, r2 \in Slots :
       TogglePair(r1, r2) =>
         LET before == req[r1].doc0.likes
             after == posts[req[r1].pid].likes
         IN /\ after.count = before.count
            /\ Range(after.users) = Range(before.users)
            /\ req[r1].liked = ~Includes(before.users, req[r1].user)
            /\ req[r2].liked = Includes(before.users, req[r1].user)

\* A like followed by the unlike of the same user.
C4_Witness ==
  \E r1, r2 \in Slots :
    /\ TogglePair(r1, r2)
    /\ req[r1].liked /\ ~req[r2].liked
    /\ posts[req[r1].pid].likes = NoLikes

OwnerOps == {"update", "deleteImage", "delete"}

\* C5: a step of updatePost, deletePostImage or deletePost asked by a user
\* who is not the author of the (existing) post answers 403, leaves every
\* post as it is, deletes no asset and has passed nothing to deleteImage.
C5_NonOwnerForbidden ==
  [][\A r \in Slots :
       ( /\ Acts(r)
         /\ req'[r].op \in OwnerOps
         /\ req'[r].pid \in DOMAIN posts
         /\ posts[req'[r].pid].author # req'[r].user )
       => /\ req'[r].pc = "done" /\ req'[r].status = 403
          /\ posts' = posts
          /\ assets \subseteq assets'
          /\ req'[r].attempted = <<>>]_vars

\* A non-owner was refused an update that named an image of the post, and
\* another one the deletion of the post.
C5_Witness ==
  \E r1, r2 \in Slots :
    /\ req[r1].pc = "done" /\ req[r1].op = "delete" /\ req[r1].status = 403
    /\ Fresh(r2) /\ req[r2].op = "update" /\ req[r2].status = 403
    /\ req[r2].pid \in DOMAIN posts
    /\ Range(req[r2].del) \cap Range(posts[req[r2].pid].images) # {}

\* C6: when the owner's deletePost has answered, every image of the post has
\* been passed to deleteImage and the post is gone.
C6_DeletePostBestEffort ==
  \A r \in Slots :
    (Fresh(r) /\ req[r].op = "delete" /\ req[r].status \notin {403, 404})
    => /\ Range(req[r].doc0.images) \subseteq Range(req[r].attempted)
       /\ req[r].pid \notin DOMAIN posts

\* C7: deletePostImage asked by the owner for the only image of a post with
\* empty content answers 400, leaves every post as it is and deletes no
\* asset.
C7_LastImageKept ==
  [][\A r \in Slots :
       ( /\ Arrives(r)
         /\ req'[r].op = "deleteImage"
         /\ req'[r].pid \in DOMAIN posts
         /\ posts[req'[r].pid].author = req'[r].user
         /\ IsFalsy(posts[req'[r].pid].content)
         /\ posts[req'[r].pid].images = <<req'[r].target>> )
       => /\ req'[r].pc = "done" /\ req'[r].status = 400
          /\ posts' = posts
          /\ assets' = assets
          /\ req'[r].attempted = <<>>]_vars

\* The owner was refused the deletion of the only image of a post without
\* content; the image and its asset are there.
C7_Witness ==
  \E r \in Slots :
    /\ Fresh(r) /\ req[r].op = "deleteImage" /\ req[r].status = 400
    /\ req[r].pid \in DOMAIN posts
    /\ posts[req[r].pid].author = req[r].user
    /\ IsFalsy(posts[req[r].pid].content)
    /\ posts[req[r].pid].images = <<req[r].target>>
    /\ req[r].target \in assets

\* What an update asks for: the images and the content after the deletions,
\* the additions and the content replacement.
AskedImages(q) == Without(q.doc0.images, Range(q.del)) \o q.files

AskedContent(q) ==
  IF q.content # Undefined THEN Trim(q.content) ELSE q.doc0.content

AskedEmpty(q) == IsFalsy(AskedContent(q)) /\ AskedImages(q) = <<>>

\* C8: with requests handled one at a time, an owner's update that asks for
\* empty content and no images never reaches save; unless a deleteImage
\* failed it answers 400, after the deletions it asked for, and the stored
\* post is then the one it read.
C8_InvalidUpdateDiscarded ==
  \A r \in Slots :
    LET q == req[r] IN
    /\ (q.op = "update" /\ q.pc = "save") => ~AskedEmpty(q)
    /\ ( /\ Fresh(r) /\ q.op = "update" /\ q.status \notin {403, 404, 500}
         /\ AskedEmpty(q) )
       => q.status = 400 /\ q.attempted = q.del
    /\ (Fresh(r) /\ q.op = "update" /\ q.status = 400)
       => /\ q.pid \in DOMAIN posts
          /\ posts[q.pid] = q.doc0
          /\ AskedEmpty(q)

\* A refused update had deleted the asset of an image the post still lists.
C8_Witness ==
  \E r \in Slots :
    /\ Fresh(r) /\ req[r].op = "update" /\ req[r].status = 400
    /\ \E i \in Range(req[r].attempted) :
         i \notin assets /\ Includes(posts[req[r].pid].images, i)

\* C9: with requests handled one at a time, after a successful update the
\* post's images are the ones it had without those named in imagesToDelete,
\* in their order, followed by the new ones; the content is the one it had
\* when none was supplied; isEdited is true.
C9_UpdateResult ==
  \A r \in Slots :
    LET q == req[r] IN
    (Fresh(r) /\ q.op = "update" /\ q.status = 200)
    => /\ q.pid \in DOMAIN posts
       /\ posts[q.pid].images = AskedImages(q)
       /\ q.content = Undefined => posts[q.pid].content = q.doc0.content
       /\ posts[q.pid].isEdited

\* An update removed the first of several images and added one, with no
\* content supplied.
C9_Witness ==
  \E r \in Slots :
    LET q == req[r] IN
    /\ Fresh(r) /\ q.op = "update" /\ q.status = 200
    /\ Len(q.doc0.images) >= 2 /\ q.del = <<q.doc0.images[1]>>
    /\ q.files # <<>> /\ q.content = Undefined
    /\ Len(posts[q.pid].images) = Len(q.doc0.images)

\* n is the ceiling of a / b, for b > 0.
IsCeiling(n, a, b) == n * b >= a /\ (n - 1) * b < a

\* C10: for page >= 1 and limit >= 1 the feed answers totalPages =
\* ceil(totalItems / limit) and hasMore exactly when currentPage * limit <
\* totalItems; with no post, totalPages is 0 and hasMore is false.
C10_Pagination ==
  (feed.pc = "done" /\ feed.page >= 1 /\ feed.limit >= 1)
  => /\ feed.status = 200
     /\ IsCeiling(feed.totalPages, feed.totalItems, feed.limit)
     /\ feed.hasMore <=> (feed.page * feed.limit < feed.totalItems)
     /\ feed.totalItems = 0 => (feed.totalPages = 0 /\ ~feed.hasMore)

\* A second page of three posts by two: the last page, two pages in all.
C10_Witness ==
  /\ feed.pc = "done" /\ feed.status = 200
  /\ feed.page = 2 /\ feed.limit = 2 /\ feed.totalItems = 3
  /\ feed.totalPages = 2 /\ ~feed.hasMore /\ Len(feed.items) = 1

\* The existing posts by createdAt descending, ties by identifier descending.
TieOrder ==
  CHOOSE o \in SortOrders :
    \A i, j \in DOMAIN o :
      (i < j /\ posts[o[i]].createdAt = posts[o[j]].createdAt) => o[i] > o[j]

\* C11: for page >= 1 and limit >= 1 the feed returns the posts at positions
\* (page-1)*limit to (page-1)*limit + limit - 1 of the existing posts
\* ordered by createdAt descending, ties by identifier descending.
C11_FeedOrder ==
  (feed.pc = "done" /\ feed.page >= 1 /\ feed.limit >= 1)
  => /\ feed.status = 200
     /\ feed.items = Page(TieOrder, (feed.page - 1) * feed.limit, feed.limit)

\* C19: whatever the page and limit query values, the page the feed uses
\* and reports is >= 1, the limit it uses is > 0 and the skip is not
\* negative.
C19_PageLimitPositive ==
  feed.pc # "idle"
  => /\ feed.page >= 1
     /\ feed.limit > 0
     /\ (feed.page - 1) * feed.limit >= 0

\* C12: a comment whose trimmed text is empty or longer than 500 characters
\* is answered 400 and changes no post; one whose trimmed text has 1 to 500
\* characters, on an existing post, goes on to save, and its save appends
\* exactly that comment at the end of the post's comments and returns it.
C12_CommentValidation ==
  [][\A r \in Slots :
       /\ (Arrives(r) /\ req'[r].op = "comment") =>
            LET q == req'[r]
                n == Len(Trim(q.text))
            IN /\ (n = 0 \/ n > 500) =>
                    (q.pc = "done" /\ q.status = 400 /\ posts' = posts)
               /\ (n >= 1 /\ n <= 500 /\ q.pid \in DOMAIN posts) =>
                    (q.pc = "save" /\ posts' = posts)
       /\ (req[r].op = "comment" /\ req[r].pc = "save" /\ req'[r].pc = "done") =>
            LET q == req[r]
                c == [id |-> q.seq, user |-> q.user, text |-> Trim(q.text)]
            IN /\ req'[r].status = 201
               /\ posts'[q.pid].comments = Append(posts[q.pid].comments, c)
               /\ q.doc.comments[Len(q.doc.comments)] = c
               /\ Len(c.text) >= 1 /\ Len(c.text) <= 500]_vars

\* A text of 500 characters between two spaces was stored, trimmed, and a
\* text of 501 characters was refused.
C12_Witness ==
  \E r \in Slots :
    /\ Fresh(r) /\ req[r].op = "comment" /\ req[r].status = 400
    /\ Len(req[r].text) = 501
    /\ req[r].pid \in DOMAIN posts
    /\ \E i \in DOMAIN posts[req[r].pid].comments :
         Len(posts[req[r].pid].comments[i].text) = 500

\* The post id was given to a post that a deletePost has removed since.
Deleted(p) == p < nextId /\ p \notin DOMAIN posts

PostOps == {"get", "like", "comment", "update", "deleteImage", "delete"}

\* C13 as stated: every getPost, toggleLike, addComment, updatePost,
\* deletePostImage and deletePost that starts on the id of a deleted post is
\* answered NotFound.
C13_DeletedNotFound ==
  [][\A r \in Slots :
       (Arrives(r) /\ req'[r].op \in PostOps /\ Deleted(req'[r].pid)) =>
         (req'[r].pc = "done" /\ req'[r].status = 404)]_vars

\* C13 amended: a deletePost answered 200 has removed the post, a removed
\* post stays removed, and every request that starts on its id is answered
\* 404 without changing anything, except an addComment with an invalid
\* text, which is answered 400.
C13_DeletedNotFoundValid ==
  [][/\ \A r \in Slots :
          (req[r].op = "delete" /\ req[r].pc # "done"
             /\ req'[r].pc = "done" /\ req'[r].status = 200)
          => Deleted(req[r].pid)'
     /\ \A p \in PostIds : Deleted(p) => Deleted(p)'
     /\ \A r \in Slots :
          (Arrives(r) /\ req'[r].op \in PostOps /\ Deleted(req'[r].pid)) =>
            /\ req'[r].pc = "done"
            /\ posts' = posts
            /\ req'[r].status =
                 IF req'[r].op = "comment" /\ Len(Trim(req'[r].text)) \notin 1..500
                 THEN 400 ELSE 404]_vars

\* A comment with a valid text on the id of a deleted post was answered 404.
C13_Witness ==
  \E r \in Slots :
    /\ Fresh(r) /\ req[r].op = "comment" /\ req[r].status = 404
    /\ Trim(req[r].text) # <<>>
    /\ Deleted(req[r].pid)

\* C14: a createPost whose content is absent or empty after trimming and
\* that carries no image is answered 400 and stores no post; one that
\* carries an image and no content is answered 201; every post createPost
\* stores has a likes count of 0, no liking user, no comment and isEdited
\* false.
C14_CreatePost ==
  [][\A r \in Slots :
       (Arrives(r) /\ req'[r].op = "create") =>
         LET q == req'[r] IN
         /\ q.pc = "done"
         /\ (IsFalsy(q.content) /\ q.files = <<>>) =>
              (q.status = 400 /\ posts' = posts)
         /\ (IsFalsy(q.content) /\ q.files # <<>>) => q.status = 201
         /\ q.status = 201 =>
              /\ DOMAIN posts' = DOMAIN posts \cup {q.pid}
              /\ q.pid \notin DOMAIN posts
              /\ posts'[q.pid].likes = [count |-> 0, users |-> <<>>]
              /\ posts'[q.pid].comments = <<>>
              /\ posts'[q.pid].isEdited = FALSE
              /\ posts'[q.pid].images = q.files
         /\ q.status # 201 => posts' = posts]_vars

\* A post with images and no content was created.
C14_Witness ==
  \E r \in Slots :
    /\ Fresh(r) /\ req[r].op = "create" /\ req[r].status = 201
    /\ req[r].content = Undefined /\ Len(req[r].files) = 2
    /\ req[r].pid \in DOMAIN posts
    /\ posts[req[r].pid].likes.count = 0

\* C15: for every post, no username occurs twice in likes.users and
\* likes.count is not negative, whatever the interleaving of the toggles,
\* two toggles of one user on one post included.
C15_NoDuplicateLikes ==
  \A p \in DOMAIN posts :
    /\ \A i, j \in DOMAIN posts[p].likes.users :
         i # j => posts[p].likes.users[i] # posts[p].likes.users[j]
    /\ posts[p].likes.count >= 0

\* C16: in every step and for every post that is not deleted by it, the
\* comments the post had stay, at their positions, and the comment of an
\* addComment answered 201 is in the post's comments once it has answered,
\* whatever the interleaving with other comments, toggles, updates and image
\* deletions.
C16_CommentsAppendOnly ==
  [][/\ \A p \in DOMAIN posts \cap DOMAIN posts' :
          /\ Len(posts'[p].comments) >= Len(posts[p].comments)
          /\ posts[p].comments =
               SubSeq(posts'[p].comments, 1, Len(posts[p].comments))
     /\ \A r \in Slots :
          (req[r].op = "comment" /\ req[r].pc = "save"
             /\ req'[r].pc = "done" /\ req'[r].status = 201)
          => \E i \in DOMAIN posts'[req[r].pid].comments :
               /\ posts'[req[r].pid].comments[i].id = req[r].seq
               /\ posts'[req[r].pid].comments[i].user = req[r].user
               /\ i > Len(posts[req[r].pid].comments)]_vars

\* Two addComment calls read the post without comments before either saved;
\* both comments are stored.
C16_Witness ==
  \E r1, r2 \in Slots :
    /\ r1 # r2
    /\ Fresh(r1) /\ Fresh(r2)
    /\ req[r1].op = "comment" /\ req[r2].op = "comment"
    /\ req[r1].status = 201 /\ req[r2].status = 201
    /\ req[r1].pid = req[r2].pid
    /\ req[r1].doc0.comments = <<>> /\ req[r2].doc0.comments = <<>>
    /\ req[r1].pid \in DOMAIN posts
    /\ Len(posts[req[r1].pid].comments) = 2

\* C17: when no request is in progress, no post lists an image that the
\* last updatePost or deletePostImage on it, answered with success or with
\* failure, asked the asset store to delete and that the store holds no
\* more.
C17_RecordMatchesAssets ==
  Quiet =>
    \A s \in Slots :
      (Fresh(s) /\ req[s].op \in {"update", "deleteImage"}
         /\ req[s].pid \in DOMAIN posts)
      => \A i \in Range(posts[req[s].pid].images) :
           i \in Range(req[s].attempted) => i \in assets

\* C18: for every post, isEdited is true exactly when editedAt is set, in
\* every state and whatever the interleaving of the updates.
C18_EditedIffEditedAt ==
  \A p \in DOMAIN posts : posts[p].isEdited <=> posts[p].editedAt # 0

\* An already edited post was edited again, at a later time.
C18_Witness ==
  \E r \in Slots :
    /\ Fresh(r) /\ req[r].op = "update" /\ req[r].status = 200
    /\ req[r].doc0.isEdited
    /\ req[r].pid \in DOMAIN posts
    /\ posts[req[r].pid].isEdited
    /\ posts[req[r].pid].editedAt > req[r].doc0.editedAt

\* No request other than those of r1 and r2 has changed or is changing the
\* images of post p.
OnlyThese(r1, r2, p) ==
  \A s \in Slots \ {r1, r2} :
    req[s].pid # p \/ req[s].op \notin {"update", "deleteImage", "delete"}

\* C20: two deletePostImage calls of the owner that both read a post without
\* content and with exactly two images, each aiming at one of the two, do
\* not both succeed, and the stored post keeps at least one image, whatever
\* the interleaving of their reads, asset deletions and saves.
C20_TwoImageDeletions ==
  \A r1, r2 \in Slots :
    ( /\ r1 # r2 /\ Fresh(r1) /\ Fresh(r2)
      /\ req[r1].op = "deleteImage" /\ req[r2].op = "deleteImage"
      /\ req[r1].pid = req[r2].pid
      /\ IsFalsy(req[r1].doc0.content) /\ IsFalsy(req[r2].doc0.content)
      /\ Len(req[r1].doc0.images) = 2
      /\ req[r2].doc0.images = req[r1].doc0.images
      /\ req[r1].target # req[r2].target
      /\ {req[r1].target, req[r2].target} = Range(req[r1].doc0.images)
      /\ OnlyThese(r1, r2, req[r1].pid) )
    => /\ ~(req[r1].status = 200 /\ req[r2].status = 200)
       /\ req[r1].pid \in DOMAIN posts
       /\ Len(posts[req[r1].pid].images) >= 1

\* Both calls passed the last-image check and deleted their asset; the
\* first save succeeded and the second failed on the version.
C20_Witness ==
  \E r1, r2 \in Slots :
    /\ r1 # r2 /\ Fresh(r1) /\ Fresh(r2)
    /\ req[r1].op = "deleteImage" /\ req[r2].op = "deleteImage"
    /\ IsFalsy(req[r1].doc0.content)
    /\ Len(req[r1].doc0.images) = 2
    /\ req[r2].doc0.images = req[r1].doc0.images
    /\ req[r1].attempted = <<req[r1].target>>
    /\ req[r2].attempted = <<req[r2].target>>
    /\ req[r1].target # req[r2].target
    /\ req[r1].status = 200 /\ req[r2].status = 500
    /\ req[r1].pid \in DOMAIN posts
    /\ posts[req[r1].pid].images = <<req[r2].target>>
    /\ assets \cap Range(req[r1].doc0.images) = {}

\* C21: an updatePost asks the asset store to delete only images of the
\* post it updates: every publicId it has passed to deleteImage is one of
\* the images the post had when the request read it.
C21_DeletesOwnImagesOnly ==
  \A s \in Slots :
    (req[s].op = "update" /\ req[s].attempted # <<>>)
    => Range(req[s].attempted) \subseteq Range(req[s].doc0.images)

\* C22: once deletePost has removed a post, no step brings the record
\* back; in particular the save of a toggleLike, addComment, updatePost or
\* deletePostImage that read the post before it was removed leaves the
\* collection as it is.
C22_DeletedStaysDeleted ==
  [][/\ \A p \in PostIds : Deleted(p) => Deleted(p)'
     /\ \A r \in Slots :
          (req[r].pc = "save" /\ Deleted(req[r].pid) /\ req'[r].pc = "done")
          => posts' = posts]_vars

\* A request read the post, deletePost removed it, and the request's save
\* came after.
C22_Witness ==
  \E r \in Slots :
    /\ Fresh(r) /\ req[r].op \in {"like", "comment", "update", "deleteImage"}
    /\ req[r].doc0.author # "none"
    /\ req[r].status = 500
    /\ Deleted(req[r].pid)
    /\ \E s \in Slots \ {r} :
         /\ req[s].op = "delete" /\ req[s].status = 200
         /\ req[s].pid = req[r].pid

\* C23: the save of a toggleLike or addComment leaves every other post as
\* it is and, of its own post, the content, images, isEdited and editedAt
\* as they are stored at the time of the save, whatever was committed since
\* the request read the post; a toggle leaves the comments and a comment
\* the likes.
C23_LikeCommentFrame ==
  [][\A r \in Slots :
       (req[r].op \in {"like", "comment"} /\ req[r].pc = "save"
          /\ req'[r].pc = "done")
       => /\ DOMAIN posts' = DOMAIN posts
          /\ \A p \in DOMAIN posts :
               /\ p # req[r].pid => posts'[p] = posts[p]
               /\ posts'[p].content = posts[p].content
               /\ posts'[p].images = posts[p].images
               /\ posts'[p].isEdited = posts[p].isEdited
               /\ posts'[p].editedAt = posts[p].editedAt
               /\ posts'[p].author = posts[p].author
               /\ req[r].op = "like" => posts'[p].comments = posts[p].comments
               /\ req[r].op = "comment" => posts'[p].likes = posts[p].likes]_vars

\* A like read the post with two images; a deletePostImage that had read
\* the post before the like was saved committed; then the like was saved:
\* the post has the like and one image.
C23_Witness ==
  \E r, s \in Slots :
    /\ r # s /\ Fresh(r) /\ Fresh(s)
    /\ req[r].op = "like" /\ req[r].status = 200 /\ req[r].liked
    /\ req[s].op = "deleteImage" /\ req[s].status = 200
    /\ req[s].pid = req[r].pid
    /\ Len(req[r].doc0.images) = 2
    /\ req[s].doc0.likes.users = <<>>
    /\ req[r].pid \in DOMAIN posts
    /\ Len(posts[req[r].pid].images) = 1
    /\ posts[req[r].pid].likes.users = <<req[r].user>>

====
